---------------------------- MODULE Spec2Model ----------------------------
(***************************************************************************)
(* consul-slack: a watcher that holds a Consul session lock, polls the     *)
(* critical health checks, diffs them against its persisted snapshot and   *)
(* returns the transitions (consul/consul.go).                             *)
(*                                                                         *)
(* A HealthCheck is represented by its ServiceID, the only field the code  *)
(* compares (pos).  A slice is a sequence; the nil slice is Nil.           *)
(* A successful Session.Renew changes nothing and is a stuttering step.    *)
(*                                                                         *)
(* The earlier variant of the package (unnamed/part_000), in which New     *)
(* only creates the session and the caller takes the lock with Lock and    *)
(* gives it back with Unlock, is modelled by the actions of Variant.       *)
(***************************************************************************)
EXTENDS Integers, Sequences, FiniteSets, TLC

\* ------------------------------------------------------------------ bounds
NumWatchers == 2      \* watcher processes sharing one Consul
NumSvc      == 3      \* distinct ServiceIDs the health API can report
MaxLive     == 2      \* longest result of healthAPI.State("critical")
FleetSvc    == 1      \* ServiceIDs reported in the fleet specification
MaxSessions == 3      \* sessions ever created (New calls, restarts included)
MaxClose    == 2      \* Close calls per watcher
FleetClose  == 1      \* Close calls per watcher in the fleet specifications

Watchers   == 1..NumWatchers
ServiceIDs == 1..NumSvc

Nil       == <<0>>    \* the nil slice: a marker no slice of ServiceIDs equals
NoSession == 0        \* lock key absent / no session
NoErr     == "nil"    \* the nil error

RECURSIVE SeqsUpTo(_, _)
\* all sequences over S of length at most n
SeqsUpTo(S, n) ==
  IF n = 0 THEN {<<>>}
  ELSE LET shorter == SeqsUpTo(S, n - 1)
       IN  shorter \cup {Append(s, x) : s \in shorter, x \in S}

Ids(chs) == IF chs = Nil THEN {} ELSE {chs[k] : k \in 1..Len(chs)}

NoDup(chs) == \A a, b \in 1..Len(chs) : chs[a] = chs[b] => a = b

\* what the health API may answer in the single-watcher specification
TickLive  == SeqsUpTo(ServiceIDs, MaxLive)
\* what the health API may answer in the fleet specifications
FleetLive == SeqsUpTo(1..FleetSvc, 1)

\* ------------------------------------------------------- pure functions
RECURSIVE posFrom(_, _, _)
posFrom(hcs, hc, k) ==
  IF k > Len(hcs) THEN -1
  ELSE IF hcs[k] = hc THEN k
  ELSE posFrom(hcs, hc, k + 1)

\* pos: position of the first check with hc's ServiceID, or -1 (1-based here)
pos(hcs, hc) == posFrom(hcs, hc, 1)

\* delInPlace with a fault: nothing is deleted
delNothing(arr, m, hc) == [arr |-> arr, len |-> m]

\* del on a slice of length m over backing array arr: append(hcs[:i], hcs[i+1:]...)
\* shifts arr[i+1..m] one place left in place and leaves arr[m] as it was.
\* Returns the array and the new length.
delInPlace(arr, m, hc) ==
  LET i == pos(SubSeq(arr, 1, m), hc)
  IN  IF i = -1 THEN [arr |-> arr, len |-> m]
      ELSE [arr |-> SubSeq(arr, 1, i - 1) \o SubSeq(arr, i + 1, m)
                      \o SubSeq(arr, m, Len(arr)),
            len |-> m - 1]

\* del as a value: the slice it returns
del(hcs, hc) ==
  LET r == delInPlace(hcs, Len(hcs), hc) IN SubSeq(r.arr, 1, r.len)

RECURSIVE passingLoopAll(_, _, _, _, _, _)
\* passingLoop with a fault: a check is emitted and deleted whether or not the
\* live checks hold its ServiceID
passingLoopAll(k, n, arr, m, live, out) ==
  IF k > n THEN [cc |-> SubSeq(arr, 1, m), pc |-> out]
  ELSE LET d == delInPlace(arr, m, arr[k])
       IN  passingLoopAll(k + 1, n, d.arr, d.len, live, Append(out, arr[k]))

RECURSIVE passingLoop(_, _, _, _, _, _)
\* "for _, check := range c.cc": the range expression is evaluated once (n
\* iterations over the backing array arr), while the body replaces c.cc by
\* del(c.cc, check), which shifts arr in place.
passingLoop(k, n, arr, m, live, out) ==
  IF k > n THEN [cc |-> SubSeq(arr, 1, m), pc |-> out]
  ELSE LET check == arr[k] IN
       IF pos(live, check) # -1
       THEN passingLoop(k + 1, n, arr, m, live, out)
       ELSE \* d is bound to del's result as a value, computed once
            CHOOSE r \in {passingLoop(k + 1, n, d.arr, d.len, live, Append(out, check)) :
                            d \in {delInPlace(arr, m, check)}} : TRUE

RECURSIVE criticalLoopStale(_, _, _, _)
\* criticalLoop with a fault: the live checks are looked up in c.cc as it was
\* before the loop, not in the c.cc the loop is appending to
criticalLoopStale(k, live, cur, out) ==
  IF k > Len(live) THEN [cc |-> cur, out |-> out]
  ELSE IF pos(SubSeq(cur, 1, Len(cur) - Len(out)), live[k]) # -1
       THEN criticalLoopStale(k + 1, live, cur, out)
       ELSE criticalLoopStale(k + 1, live, Append(cur, live[k]), Append(out, live[k]))

RECURSIVE criticalLoop(_, _, _, _)
\* "for _, check := range hc": appends the checks absent from c.cc
criticalLoop(k, live, cur, out) ==
  IF k > Len(live) THEN [cc |-> cur, out |-> out]
  ELSE IF pos(cur, live[k]) # -1
       THEN criticalLoop(k + 1, live, cur, out)
       ELSE criticalLoop(k + 1, live, Append(cur, live[k]), Append(out, live[k]))

\* one tick's diff: [snap: new c.cc, pc: newly passing, cc: newly critical]
diff(snapshot, live) ==
  LET p == passingLoop(1, Len(snapshot), snapshot, Len(snapshot), live, <<>>)
      c == criticalLoop(1, live, p.cc, <<>>)
  IN  [snap |-> c.cc, pc |-> p.pc, cc |-> c.out]

\* json.Marshal of a HealthChecks value
Marshal(chs) ==
  IF chs = Nil THEN [kind |-> "null", elems |-> <<>>]
  ELSE [kind |-> "array", elems |-> chs]

Absent  == [kind |-> "absent", elems |-> <<>>]     \* no state key
Garbage == [kind |-> "garbage", elems |-> <<>>]    \* bytes that are not JSON

\* json.Unmarshal(kv.Value, &chs) with chs = HealthChecks{}
Unmarshal(v) ==
  CASE v.kind = "array" -> [chs |-> v.elems, err |-> NoErr]
    [] v.kind = "null"  -> [chs |-> <<>>, err |-> NoErr]
    [] OTHER            -> [chs |-> <<>>, err |-> "unmarshal"]

\* ------------------------------------------------------------------ state
VARIABLES
  sessions,   \* Consul: the live sessions
  lockKey,    \* Consul: the session holding consul-slack/.lock, or NoSession
  store,      \* Consul: the value of consul-slack/state
  up,         \* whether the calls to Consul succeed (agent reachable)
  nextSid,    \* Consul: the next session id Session.Create hands out
  pc,         \* the foreground flow's position in New / Next
  sess,       \* c.lock.Session
  locked,     \* c.locked
  stopCh,     \* c.stopCh: "open" or "closed"
  cc,         \* c.cc, the working snapshot (Nil before load)
  hc,         \* Next's local hc, the last health API answer
  outcc,      \* Next's named result cc (newly critical)
  outpc,      \* Next's named result pc (newly passing)
  err,        \* the named result err of New / Next
  renew,      \* the renewal goroutine: none, running, failed, stopped, dead
  cpc,        \* the Close call's position (it runs in the signal goroutine)
  closes,     \* Close calls made so far
  prior,      \* history: c.cc when the current tick began
  written,    \* history: what the current Next call's dump wrote
  crashed,    \* history: the tick a crash interrupted, until the next tick
  timer,      \* Next's timer t: none, pending or fired
  lockCh,     \* c.lockCh of the Lock/Unlock variant: nil, open or closed
  health      \* the failing set of a health API that holds still, else Nil

vars == <<sessions, lockKey, store, up, nextSid, pc, sess, locked, stopCh, cc,
          hc, outcc, outpc, err, renew, cpc, closes, prior, written, crashed,
          timer, lockCh, health>>

consulVars  == <<sessions, lockKey, store, up, nextSid>>
nextLocals  == <<hc, outcc, outpc, prior, written>>
closeVars   == <<cpc, closes>>
lockVars    == <<lockCh, health>>

NotWritten == [kind |-> "unwritten", elems |-> <<>>]
NoCrash    == [at |-> "none", hc |-> <<>>, pc |-> <<>>, cc |-> <<>>]

\* the snapshots a state key left by an earlier run can hold
Snapshots(S, n) == {s \in SeqsUpTo(S, n) : NoDup(s)}

InitWith(stores) ==
  /\ sessions = {}
  /\ lockKey = NoSession
  /\ store \in stores
  /\ up = TRUE
  /\ nextSid = 1
  /\ pc = [i \in Watchers |-> "created"]
  /\ sess = [i \in Watchers |-> NoSession]
  /\ locked = [i \in Watchers |-> FALSE]
  /\ stopCh = [i \in Watchers |-> "open"]
  /\ cc = [i \in Watchers |-> Nil]
  /\ hc = [i \in Watchers |-> <<>>]
  /\ outcc = [i \in Watchers |-> <<>>]
  /\ outpc = [i \in Watchers |-> <<>>]
  /\ err = [i \in Watchers |-> NoErr]
  /\ renew = [i \in Watchers |-> "none"]
  /\ cpc = [i \in Watchers |-> "none"]
  /\ closes = [i \in Watchers |-> 0]
  /\ prior = [i \in Watchers |-> <<>>]
  /\ written = [i \in Watchers |-> NotWritten]
  /\ crashed = [i \in Watchers |-> NoCrash]
  /\ timer = [i \in Watchers |-> "none"]
  /\ lockCh = [i \in Watchers |-> "nil"]
  /\ health = Nil

\* the state keys the fleet specifications start from, and the poll loop's
FleetStores == {Absent, Garbage} \cup {Marshal(s) : s \in Snapshots(1..FleetSvc, FleetSvc)}
TickStores  == {Absent, Garbage} \cup {Marshal(s) : s \in Snapshots(ServiceIDs, NumSvc)}

Init == InitWith(FleetStores)

\* watcher 1 as New returned it: session 1 created and renewed, lock held
InitPolling(stores, healths) ==
  /\ sessions = {1}
  /\ lockKey = 1
  /\ store \in stores
  /\ up = TRUE
  /\ nextSid = 2
  /\ pc = [i \in Watchers |-> IF i = 1 THEN "idle" ELSE "created"]
  /\ sess = [i \in Watchers |-> IF i = 1 THEN 1 ELSE NoSession]
  /\ locked = [i \in Watchers |-> i = 1]
  /\ stopCh = [i \in Watchers |-> "open"]
  /\ cc = [i \in Watchers |-> Nil]
  /\ hc = [i \in Watchers |-> <<>>]
  /\ outcc = [i \in Watchers |-> <<>>]
  /\ outpc = [i \in Watchers |-> <<>>]
  /\ err = [i \in Watchers |-> NoErr]
  /\ renew = [i \in Watchers |-> IF i = 1 THEN "running" ELSE "none"]
  /\ cpc = [i \in Watchers |-> "none"]
  /\ closes = [i \in Watchers |-> 0]
  /\ prior = [i \in Watchers |-> <<>>]
  /\ written = [i \in Watchers |-> NotWritten]
  /\ crashed = [i \in Watchers |-> NoCrash]
  /\ timer = [i \in Watchers |-> "none"]
  /\ lockCh = [i \in Watchers |-> "nil"]
  /\ health \in healths

InitTick == InitPolling(TickStores, {Nil})

\* the same in the fleet's domain
InitShutdown == InitPolling(FleetStores, {Nil})

\* the same, facing a health API whose answer never changes
InitConverge == InitPolling(TickStores, TickLive)

\* ------------------------------------------------------------ environment
\* the Consul agent becomes unreachable: every api call returns an error
EnvDown == up /\ up' = FALSE
           /\ UNCHANGED <<sessions, lockKey, store, nextSid, pc, sess, locked,
                          stopCh, cc, hc, outcc, outpc, err, renew, cpc, closes,
                          prior, written, crashed, timer, lockVars>>

EnvUp == ~up /\ up' = TRUE
         /\ UNCHANGED <<sessions, lockKey, store, nextSid, pc, sess, locked,
                        stopCh, cc, hc, outcc, outpc, err, renew, cpc, closes,
                        prior, written, crashed, timer, lockVars>>

\* a session whose TTL is no longer renewed (its renewal goroutine has ended,
\* or its process is gone) is invalidated by Consul; Behavior "delete" removes
\* the keys it holds
Expire(s) ==
  /\ s \in sessions
  /\ \A i \in Watchers : ~(sess[i] = s /\ renew[i] = "running")
  /\ sessions' = sessions \ {s}
  /\ lockKey' = IF lockKey = s THEN NoSession ELSE lockKey
  /\ UNCHANGED <<store, up, nextSid, pc, sess, locked, stopCh, cc, hc, outcc,
                 outpc, err, renew, cpc, closes, prior, written, crashed, timer, lockVars>>

\* ------------------------------------------------------ New / startSession
\* New: the Status().Leader() check, then startSession up to the start of
\* the renewal goroutine
New(i) ==
  /\ pc[i] = "created"
  /\ IF ~up
     THEN /\ pc' = [pc EXCEPT ![i] = "newfailed"]
          /\ err' = [err EXCEPT ![i] = "unavailable"]
          /\ UNCHANGED <<sessions, nextSid, sess, renew>>
     ELSE /\ nextSid <= MaxSessions
          /\ sessions' = sessions \cup {nextSid}
          /\ nextSid' = nextSid + 1
          /\ sess' = [sess EXCEPT ![i] = nextSid]
          /\ renew' = [renew EXCEPT ![i] = "running"]
          /\ pc' = [pc EXCEPT ![i] = "get"]
          /\ err' = [err EXCEPT ![i] = NoErr]
  /\ UNCHANGED <<lockKey, store, up, locked, stopCh, cc, hc, outcc, outpc,
                 cpc, closes, prior, written, crashed, timer, lockVars>>

\* startSession: kvAPI.Get(lockKey) with WaitTime; it answers on a change of
\* the key or after waitTime
startSessionGet(i) ==
  /\ pc[i] = "get"
  /\ IF ~up
     THEN /\ pc' = [pc EXCEPT ![i] = "newfailed"]
          /\ err' = [err EXCEPT ![i] = "unavailable"]
     ELSE /\ pc' = [pc EXCEPT ![i] = "acquire"]
          /\ err' = err
  /\ UNCHANGED <<consulVars, sess, locked, stopCh, cc, nextLocals, renew,
                 closeVars, crashed, timer, lockVars>>

\* startSessionAcquire with a fault: a lock held by another session is returned
\* as an error instead of being retried
startSessionAcquireNoRetry(i) ==
  /\ pc[i] = "acquire"
  /\ IF ~up
     THEN /\ pc' = [pc EXCEPT ![i] = "newfailed"]
          /\ err' = [err EXCEPT ![i] = "unavailable"]
          /\ UNCHANGED <<lockKey, locked>>
     ELSE IF sess[i] \notin sessions
     THEN /\ pc' = [pc EXCEPT ![i] = "newfailed"]
          /\ err' = [err EXCEPT ![i] = "invalid session"]
          /\ UNCHANGED <<lockKey, locked>>
     ELSE IF lockKey \in {NoSession, sess[i]}
     THEN /\ lockKey' = sess[i]
          /\ locked' = [locked EXCEPT ![i] = TRUE]
          /\ pc' = [pc EXCEPT ![i] = "idle"]
          /\ err' = err
     ELSE /\ pc' = [pc EXCEPT ![i] = "newfailed"]
          /\ err' = [err EXCEPT ![i] = "locked"]
          /\ UNCHANGED <<lockKey, locked>>
  /\ UNCHANGED <<sessions, store, up, nextSid, sess, stopCh, cc, nextLocals,
                 renew, closeVars, crashed, timer, lockVars>>

\* startSession: kvAPI.Acquire(c.lock)
startSessionAcquire(i) ==
  /\ pc[i] = "acquire"
  /\ IF ~up
     THEN /\ pc' = [pc EXCEPT ![i] = "newfailed"]
          /\ err' = [err EXCEPT ![i] = "unavailable"]
          /\ UNCHANGED <<lockKey, locked>>
     ELSE IF sess[i] \notin sessions
     THEN /\ pc' = [pc EXCEPT ![i] = "newfailed"]
          /\ err' = [err EXCEPT ![i] = "invalid session"]
          /\ UNCHANGED <<lockKey, locked>>
     ELSE IF lockKey \in {NoSession, sess[i]}
     THEN /\ lockKey' = sess[i]
          /\ locked' = [locked EXCEPT ![i] = TRUE]
          /\ pc' = [pc EXCEPT ![i] = "idle"]
          /\ err' = err
     ELSE /\ pc' = [pc EXCEPT ![i] = "get"]
          /\ err' = err
          /\ UNCHANGED <<lockKey, locked>>
  /\ UNCHANGED <<sessions, store, up, nextSid, sess, stopCh, cc, nextLocals,
                 renew, closeVars, crashed, timer, lockVars>>

\* ------------------------------------------------------ renewal goroutine
\* time.After fired and sessionAPI.Renew returned an error: the goroutine ends
renewFail(i) ==
  /\ renew[i] = "running"
  /\ ~up
  /\ renew' = [renew EXCEPT ![i] = "failed"]
  /\ UNCHANGED <<consulVars, pc, sess, locked, stopCh, cc, nextLocals, err,
                 closeVars, crashed, timer, lockVars>>

\* case <-c.stopCh: break Loop
renewStop(i) ==
  /\ renew[i] = "running"
  /\ stopCh[i] = "closed"
  /\ renew' = [renew EXCEPT ![i] = "stopped"]
  /\ UNCHANGED <<consulVars, pc, sess, locked, stopCh, cc, nextLocals, err,
                 closeVars, crashed, timer, lockVars>>

\* -------------------------------------------------------------------- Close
\* the caller has a *Consul only after New returned it
Constructed(i) ==
  pc[i] \in {"idle", "select", "sleep", "woken", "stopping", "dump", "ret"}

\* Close is entered: "if c.locked"
CloseCall(i, calls) ==
  /\ Constructed(i)
  /\ cpc[i] \in {"none", "done", "erred"}
  /\ closes[i] < calls
  /\ closes' = [closes EXCEPT ![i] = closes[i] + 1]
  /\ cpc' = [cpc EXCEPT ![i] = IF locked[i] THEN "release" ELSE "destroy"]
  /\ UNCHANGED <<consulVars, pc, sess, locked, stopCh, cc, nextLocals, err,
                 renew, crashed, timer, lockVars>>

\* kvAPI.Release(c.lock): releases the key when c.lock.Session holds it
CloseRelease(i) ==
  /\ cpc[i] = "release"
  /\ IF ~up
     THEN /\ cpc' = [cpc EXCEPT ![i] = "erred"]
          /\ lockKey' = lockKey
     ELSE /\ cpc' = [cpc EXCEPT ![i] = "destroy"]
          /\ lockKey' = IF lockKey = sess[i] THEN NoSession ELSE lockKey
  /\ UNCHANGED <<sessions, store, up, nextSid, pc, sess, locked, stopCh, cc,
                 nextLocals, err, renew, closes, crashed, timer, lockVars>>

\* sessionAPI.Destroy(c.lock.Session)
CloseDestroy(i) ==
  /\ cpc[i] = "destroy"
  /\ IF ~up
     THEN /\ cpc' = [cpc EXCEPT ![i] = "erred"]
          /\ UNCHANGED <<sessions, lockKey>>
     ELSE /\ cpc' = [cpc EXCEPT ![i] = "closech"]
          /\ sessions' = sessions \ {sess[i]}
          /\ lockKey' = IF lockKey = sess[i] THEN NoSession ELSE lockKey
  /\ UNCHANGED <<store, up, nextSid, pc, sess, locked, stopCh, cc, nextLocals,
                 err, renew, closes, crashed, timer, lockVars>>

\* close(c.stopCh): a Next blocked in its select is woken on the stopCh case;
\* closing a closed channel panics, which ends the process
CloseStopCh(i) ==
  /\ cpc[i] = "closech"
  /\ IF stopCh[i] = "open"
     THEN /\ stopCh' = [stopCh EXCEPT ![i] = "closed"]
          /\ cpc' = [cpc EXCEPT ![i] = "done"]
          /\ pc' = [pc EXCEPT ![i] = IF pc[i] = "sleep" THEN "stopping" ELSE pc[i]]
          /\ timer' = [timer EXCEPT ![i] = IF pc[i] = "sleep" THEN "none" ELSE timer[i]]
          /\ renew' = renew
     ELSE /\ cpc' = [cpc EXCEPT ![i] = "panic"]
          /\ pc' = [pc EXCEPT ![i] = "dead"]
          /\ renew' = [renew EXCEPT ![i] = "dead"]
          /\ UNCHANGED <<stopCh, timer>>
  /\ UNCHANGED <<consulVars, sess, locked, cc, nextLocals, err, closes,
                 crashed, lockVars>>

\* --------------------------------------------------------------------- Next
\* load: kvAPI.Get(stateKey) and json.Unmarshal; the value and the error
load ==
  IF ~up THEN [chs |-> Nil, err |-> "unavailable"]
  ELSE IF store = Absent THEN [chs |-> <<>>, err |-> NoErr]
  ELSE Unmarshal(store)

\* Next is called: the results are fresh, the timer of duration 0 is started,
\* and c.cc is loaded when it is nil
NextCall(i) ==
  /\ pc[i] = "idle"
  /\ outcc' = [outcc EXCEPT ![i] = <<>>]
  /\ outpc' = [outpc EXCEPT ![i] = <<>>]
  /\ written' = [written EXCEPT ![i] = NotWritten]
  /\ IF cc[i] = Nil
     THEN /\ cc' = [cc EXCEPT ![i] = load.chs]
          /\ err' = [err EXCEPT ![i] = load.err]
          /\ pc' = [pc EXCEPT ![i] = IF load.err = NoErr THEN "select" ELSE "idle"]
          /\ timer' = [timer EXCEPT ![i] =
                         IF load.err = NoErr THEN "pending" ELSE "none"]
     ELSE /\ cc' = cc
          /\ err' = [err EXCEPT ![i] = NoErr]
          /\ pc' = [pc EXCEPT ![i] = "select"]
          /\ timer' = [timer EXCEPT ![i] = "pending"]
  /\ UNCHANGED <<consulVars, sess, locked, stopCh, hc, prior, renew, closeVars,
                 crashed, lockVars>>

\* the timer fires: a Next blocked in its select is woken on the t.C case
timerFire(i) ==
  /\ timer[i] = "pending"
  /\ timer' = [timer EXCEPT ![i] = "fired"]
  /\ pc' = [pc EXCEPT ![i] = IF pc[i] = "sleep" THEN "woken" ELSE pc[i]]
  /\ UNCHANGED <<consulVars, sess, locked, stopCh, cc, nextLocals, err, renew,
                 closeVars, crashed, lockVars>>

\* select with no case ready: the goroutine blocks until one becomes ready
selectBlock(i) ==
  /\ pc[i] = "select"
  /\ timer[i] = "pending"
  /\ stopCh[i] = "open"
  /\ pc' = [pc EXCEPT ![i] = "sleep"]
  /\ UNCHANGED <<consulVars, sess, locked, stopCh, cc, nextLocals, err, renew,
                 closeVars, crashed, timer, lockVars>>

\* NextStop with a fault: c.stopCh is looked at only once the timer has fired
NextStopAtTimer(i) ==
  /\ pc[i] = "select" /\ stopCh[i] = "closed" /\ timer[i] = "fired"
  /\ pc' = [pc EXCEPT ![i] = "idle"]
  /\ timer' = [timer EXCEPT ![i] = "none"]
  /\ UNCHANGED <<consulVars, sess, locked, stopCh, cc, nextLocals, err, renew,
                 closeVars, crashed, lockVars>>

\* select: case <-c.stopCh: return.  Taken when the select finds c.stopCh
\* closed (among the ready cases one is picked at random), or when the close
\* woke the blocked select.
NextStop(i) ==
  /\ \/ pc[i] = "select" /\ stopCh[i] = "closed"
     \/ pc[i] = "stopping"
  /\ pc' = [pc EXCEPT ![i] = "idle"]
  /\ timer' = [timer EXCEPT ![i] = "none"]
  /\ UNCHANGED <<consulVars, sess, locked, stopCh, cc, nextLocals, err, renew,
                 closeVars, crashed, lockVars>>

\* select: case <-t.C: healthAPI.State("critical"), then the two loops.
\* Taken when the select finds the timer fired (c.stopCh may be closed as well:
\* one ready case is picked at random), or when the timer woke the blocked
\* select.
NextTick(i, answers) ==
  /\ \/ pc[i] = "select" /\ timer[i] = "fired"
     \/ pc[i] = "woken"
  /\ timer' = [timer EXCEPT ![i] = "none"]
  /\ IF ~up
     THEN /\ err' = [err EXCEPT ![i] = "unavailable"]
          /\ pc' = [pc EXCEPT ![i] = "idle"]
          /\ UNCHANGED <<cc, hc, outcc, outpc, prior>>
     ELSE \E live \in answers :
            LET d == diff(cc[i], live) IN
            /\ hc' = [hc EXCEPT ![i] = live]
            /\ prior' = [prior EXCEPT ![i] = cc[i]]
            /\ cc' = [cc EXCEPT ![i] = d.snap]
            /\ outpc' = [outpc EXCEPT ![i] = d.pc]
            /\ outcc' = [outcc EXCEPT ![i] = d.cc]
            /\ pc' = [pc EXCEPT ![i] = "dump"]
            /\ err' = err
  /\ UNCHANGED <<consulVars, sess, locked, stopCh, written, renew, closeVars,
                 crashed, lockVars>>

\* dump with a fault: a batch is returned without the snapshot being put
dumpAfterReturn(i) ==
  /\ pc[i] = "dump"
  /\ IF Len(outcc[i]) > 0 \/ Len(outpc[i]) > 0
     THEN /\ pc' = [pc EXCEPT ![i] = "ret"]
          /\ UNCHANGED <<store, err, hc, prior, written, timer>>
     ELSE /\ store' = Marshal(cc[i])
          /\ pc' = [pc EXCEPT ![i] = "select"]
          /\ timer' = [timer EXCEPT ![i] = "pending"]
          /\ hc' = [hc EXCEPT ![i] = <<>>]
          /\ prior' = [prior EXCEPT ![i] = <<>>]
          /\ UNCHANGED <<err, written>>
  /\ crashed' = [crashed EXCEPT ![i] = NoCrash]
  /\ UNCHANGED <<sessions, lockKey, up, nextSid, sess, locked, stopCh, cc,
                 outcc, outpc, renew, closeVars, lockVars>>

\* dump with a fault: Next returns after every tick, an empty one included
dumpThenReturn(i) ==
  /\ pc[i] = "dump"
  /\ IF ~up
     THEN /\ err' = [err EXCEPT ![i] = "unavailable"]
          /\ pc' = [pc EXCEPT ![i] = "idle"]
          /\ hc' = [hc EXCEPT ![i] = <<>>]
          /\ prior' = [prior EXCEPT ![i] = <<>>]
          /\ UNCHANGED <<store, written, timer>>
     ELSE /\ store' = Marshal(cc[i])
          /\ written' = [written EXCEPT ![i] = Marshal(cc[i])]
          /\ pc' = [pc EXCEPT ![i] = "ret"]
          /\ UNCHANGED <<err, hc, prior, timer>>
  /\ crashed' = [crashed EXCEPT ![i] = NoCrash]
  /\ UNCHANGED <<sessions, lockKey, up, nextSid, sess, locked, stopCh, cc,
                 outcc, outpc, renew, closeVars, lockVars>>

\* dump(c.cc): json.Marshal and kvAPI.Put(stateKey), then
\* "if len(cc) > 0 || len(pc) > 0" or a new timer.  The local hc is dead once
\* the loops are done and is cleared when the tick ends; the histories prior
\* and written last until the tick's batch is returned.
dump(i) ==
  /\ pc[i] = "dump"
  /\ IF ~up
     THEN /\ err' = [err EXCEPT ![i] = "unavailable"]
          /\ pc' = [pc EXCEPT ![i] = "idle"]
          /\ hc' = [hc EXCEPT ![i] = <<>>]
          /\ prior' = [prior EXCEPT ![i] = <<>>]
          /\ UNCHANGED <<store, written, timer>>
     ELSE IF Len(outcc[i]) > 0 \/ Len(outpc[i]) > 0
     THEN /\ store' = Marshal(cc[i])
          /\ written' = [written EXCEPT ![i] = Marshal(cc[i])]
          /\ pc' = [pc EXCEPT ![i] = "ret"]
          /\ UNCHANGED <<err, hc, prior, timer>>
     ELSE /\ store' = Marshal(cc[i])
          /\ pc' = [pc EXCEPT ![i] = "select"]
          /\ timer' = [timer EXCEPT ![i] = "pending"]
          /\ hc' = [hc EXCEPT ![i] = <<>>]
          /\ prior' = [prior EXCEPT ![i] = <<>>]
          /\ UNCHANGED <<err, written>>
  /\ crashed' = [crashed EXCEPT ![i] = NoCrash]
  /\ UNCHANGED <<sessions, lockKey, up, nextSid, sess, locked, stopCh, cc,
                 outcc, outpc, renew, closeVars, lockVars>>

\* the return of Next with a batch
NextReturn(i) ==
  /\ pc[i] = "ret"
  /\ pc' = [pc EXCEPT ![i] = "idle"]
  /\ hc' = [hc EXCEPT ![i] = <<>>]
  /\ prior' = [prior EXCEPT ![i] = <<>>]
  /\ written' = [written EXCEPT ![i] = NotWritten]
  /\ UNCHANGED <<consulVars, sess, locked, stopCh, cc, outcc, outpc, err, renew,
                 closeVars, crashed, timer, lockVars>>

\* ------------------------------------------------------- crash and restart
\* the process dies and is started again: the memory is lost, Consul's keys
\* and the session (until it expires) stay
Crash(i) ==
  /\ pc[i] # "created"
  /\ crashed' = [crashed EXCEPT ![i] =
                   IF pc[i] \in {"dump", "ret"}
                   THEN [at |-> pc[i], hc |-> hc[i], pc |-> outpc[i], cc |-> outcc[i]]
                   ELSE NoCrash]
  /\ pc' = [pc EXCEPT ![i] = "created"]
  /\ sess' = [sess EXCEPT ![i] = NoSession]
  /\ locked' = [locked EXCEPT ![i] = FALSE]
  /\ stopCh' = [stopCh EXCEPT ![i] = "open"]
  /\ cc' = [cc EXCEPT ![i] = Nil]
  /\ hc' = [hc EXCEPT ![i] = <<>>]
  /\ outcc' = [outcc EXCEPT ![i] = <<>>]
  /\ outpc' = [outpc EXCEPT ![i] = <<>>]
  /\ err' = [err EXCEPT ![i] = NoErr]
  /\ renew' = [renew EXCEPT ![i] = "none"]
  /\ cpc' = [cpc EXCEPT ![i] = "none"]
  /\ closes' = [closes EXCEPT ![i] = 0]
  /\ prior' = [prior EXCEPT ![i] = <<>>]
  /\ written' = [written EXCEPT ![i] = NotWritten]
  /\ timer' = [timer EXCEPT ![i] = "none"]
  /\ lockCh' = [lockCh EXCEPT ![i] = "nil"]
  /\ UNCHANGED <<consulVars, health>>

\* ------------------------------------- the Lock / Unlock variant (part_000)
\* New of the variant: Session.Create with a TTL; no lock is taken and no
\* renewal goroutine is started
NewUnlocked(i) ==
  /\ pc[i] = "created"
  /\ IF ~up
     THEN /\ pc' = [pc EXCEPT ![i] = "newfailed"]
          /\ err' = [err EXCEPT ![i] = "unavailable"]
          /\ UNCHANGED <<sessions, nextSid, sess>>
     ELSE /\ nextSid <= MaxSessions
          /\ sessions' = sessions \cup {nextSid}
          /\ nextSid' = nextSid + 1
          /\ sess' = [sess EXCEPT ![i] = nextSid]
          /\ pc' = [pc EXCEPT ![i] = "idle"]
          /\ err' = [err EXCEPT ![i] = NoErr]
  /\ UNCHANGED <<lockKey, store, up, locked, stopCh, cc, nextLocals, renew,
                 closeVars, crashed, timer, lockVars>>

\* Lock is called: "if c.lockCh != nil { panic("already locked") }"
Lock(i) ==
  /\ pc[i] = "idle"
  /\ pc' = [pc EXCEPT ![i] = IF lockCh[i] # "nil" THEN "panic: already locked"
                                                 ELSE "lock"]
  /\ UNCHANGED <<consulVars, sess, locked, stopCh, cc, nextLocals, err, renew,
                 closeVars, crashed, timer, lockVars>>

\* Lock's loop: kvAPI.Acquire(c.lock); on success c.lockCh is made and the
\* renewal goroutine started; a lock held by another session leads to the
\* one-second sleep
LockAcquire(i) ==
  /\ pc[i] = "lock"
  /\ IF ~up \/ sess[i] \notin sessions
     THEN /\ pc' = [pc EXCEPT ![i] = "idle"]
          /\ err' = [err EXCEPT ![i] = IF ~up THEN "unavailable"
                                              ELSE "invalid session"]
          /\ UNCHANGED <<lockKey, lockCh, renew>>
     ELSE IF lockKey \in {NoSession, sess[i]}
     THEN /\ lockKey' = sess[i]
          /\ lockCh' = [lockCh EXCEPT ![i] = "open"]
          /\ renew' = [renew EXCEPT ![i] = "running"]
          /\ pc' = [pc EXCEPT ![i] = "idle"]
          /\ err' = [err EXCEPT ![i] = NoErr]
     ELSE /\ pc' = [pc EXCEPT ![i] = "locksleep"]
          /\ UNCHANGED <<lockKey, lockCh, renew, err>>
  /\ UNCHANGED <<sessions, store, up, nextSid, sess, locked, stopCh, cc,
                 nextLocals, closeVars, crashed, timer, health>>

\* Lock's loop: time.Sleep(time.Second) is over, next iteration
LockSleep(i) ==
  /\ pc[i] = "locksleep"
  /\ pc' = [pc EXCEPT ![i] = "lock"]
  /\ UNCHANGED <<consulVars, sess, locked, stopCh, cc, nextLocals, err, renew,
                 closeVars, crashed, timer, lockVars>>

\* Unlock: panic("not locked") when c.lockCh is nil; close(c.lockCh), which
\* panics on a closed channel; kvAPI.Release(c.lock), whose error is returned
Unlock(i) ==
  /\ pc[i] = "idle"
  /\ IF lockCh[i] = "nil"
     THEN /\ pc' = [pc EXCEPT ![i] = "panic: not locked"]
          /\ UNCHANGED <<lockCh, lockKey, err>>
     ELSE IF lockCh[i] = "closed"
     THEN /\ pc' = [pc EXCEPT ![i] = "panic: close of closed lockCh"]
          /\ UNCHANGED <<lockCh, lockKey, err>>
     ELSE /\ lockCh' = [lockCh EXCEPT ![i] = "closed"]
          /\ lockKey' = IF up /\ lockKey = sess[i] THEN NoSession ELSE lockKey
          /\ err' = [err EXCEPT ![i] = IF up THEN NoErr ELSE "unavailable"]
          /\ pc' = pc
  /\ UNCHANGED <<sessions, store, up, nextSid, sess, locked, stopCh, cc,
                 nextLocals, renew, closeVars, crashed, timer, health>>

\* the variant's renewal goroutine: case <-c.lockCh: break Loop
renewUnlock(i) ==
  /\ renew[i] = "running"
  /\ lockCh[i] = "closed"
  /\ renew' = [renew EXCEPT ![i] = "stopped"]
  /\ UNCHANGED <<consulVars, pc, sess, locked, stopCh, cc, nextLocals, err,
                 closeVars, crashed, timer, lockVars>>

\* the variant's Close, callable from any goroutine once New has returned:
\* close(c.stopCh) and nothing else
CloseOnly(i) ==
  /\ pc[i] \in {"idle", "lock", "locksleep"}
  /\ IF stopCh[i] = "open"
     THEN stopCh' = [stopCh EXCEPT ![i] = "closed"] /\ pc' = pc
     ELSE pc' = [pc EXCEPT ![i] = "panic: close of closed stopCh"]
          /\ stopCh' = stopCh
  /\ UNCHANGED <<consulVars, sess, locked, cc, nextLocals, err, renew,
                 closeVars, crashed, timer, lockVars>>

\* ----------------------------------------------------------- specifications
\* lock acquisition and the renewal goroutine
Locking(i) ==
  \/ New(i) \/ startSessionGet(i) \/ startSessionAcquire(i) \/ renewFail(i)

\* Close, in the signal goroutine, and what waits for c.stopCh
Closing(i, calls) ==
  \/ CloseCall(i, calls) \/ CloseRelease(i) \/ CloseDestroy(i) \/ CloseStopCh(i)
  \/ renewStop(i)

\* the poll loop
Polling(i, answers) ==
  \/ NextCall(i) \/ timerFire(i) \/ selectBlock(i) \/ NextTick(i, answers)
  \/ dump(i) \/ NextReturn(i)

Env == EnvDown \/ EnvUp \/ \E s \in 1..MaxSessions : Expire(s)

\* the fleet: every watcher against one Consul
Next ==
  \/ Env
  \/ \E i \in Watchers :
       Locking(i) \/ Closing(i, FleetClose) \/ Polling(i, FleetLive) \/ NextStop(i)

Spec == Init /\ [][Next]_vars

\* the watchers contending for the lock, up to the return of New; the lock
\* changes hands when the holder's session expires
NextLock == Env \/ \E i \in Watchers : Locking(i)

SpecLock == Init /\ [][NextLock]_vars

\* the Lock / Unlock variant: any sequence of Lock, Unlock and Close calls of
\* each watcher
Variant(i) ==
  \/ NewUnlocked(i) \/ Lock(i) \/ LockAcquire(i) \/ LockSleep(i) \/ Unlock(i)
  \/ CloseOnly(i) \/ renewFail(i) \/ renewUnlock(i)

NextVariant == Env \/ \E i \in Watchers : Variant(i)

SpecVariant == Init /\ [][NextVariant]_vars

\* one watcher through its whole life, restarted after a crash
NextCrash ==
  \/ Env
  \/ Locking(1) \/ Closing(1, MaxClose) \/ Polling(1, FleetLive) \/ NextStop(1)
  \/ Crash(1)

SpecCrash == Init /\ [][NextCrash]_vars

\* the poll loop of one constructed watcher, with the full range of answers
NextPoll == EnvDown \/ EnvUp \/ Polling(1, TickLive)

SpecTick == InitTick /\ [][NextPoll]_vars

\* the poll loop of one constructed watcher and the Close that stops it.  The
\* goroutine in Next keeps running (weak fairness of its steps), and a select
\* that finds c.stopCh closed again and again takes that case in the end, as
\* it picks among the ready cases at random (strong fairness of NextStop).
NextShutdown ==
  \/ EnvDown \/ EnvUp
  \/ Polling(1, FleetLive) \/ NextStop(1) \/ Closing(1, FleetClose)

FairShutdown ==
  /\ WF_vars(timerFire(1)) /\ WF_vars(selectBlock(1))
  /\ WF_vars(NextTick(1, FleetLive)) /\ WF_vars(dump(1)) /\ WF_vars(NextReturn(1))
  /\ SF_vars(NextStop(1))

SpecShutdown == InitShutdown /\ [][NextShutdown]_vars /\ FairShutdown

\* the poll loop of one constructed watcher whose caller keeps calling Next,
\* with Consul reachable and the health API always answering health
NextConverge == Polling(1, {health})

SpecConverge == InitConverge /\ [][NextConverge]_vars /\ WF_vars(NextConverge)

\* ------------------------------------------------------------------- claims
\* C1: at most one watcher of the fleet is in the middle of a poll tick (it
\* has fetched the live checks and is about to write the state key).
C1_OneTicker ==
  \A i, j \in Watchers : (pc[i] = "dump" /\ pc[j] = "dump") => i = j

\* C2: after one tick, for a live failing set with unique service identifiers,
\* the working snapshot and the snapshot written to the state key hold exactly
\* the service identifiers of the live set.
C2_SnapshotIsLive ==
  \A i \in Watchers :
    (pc[i] \in {"dump", "ret"} /\ NoDup(hc[i]) /\ NoDup(prior[i])) =>
      /\ Ids(cc[i]) = Ids(hc[i])
      /\ pc[i] = "ret" => Ids(written[i].elems) = Ids(hc[i])

\* C3: the transitions of a tick that a crash interrupted (before the dump,
\* or between the dump and the return of Next) are computed again by the first
\* tick after the restart when the live failing set is the same.
C3_NoLostTransition ==
  \A i \in Watchers :
    (pc[i] = "dump" /\ crashed[i].at # "none" /\ hc[i] = crashed[i].hc) =>
      /\ Ids(crashed[i].pc) \subseteq Ids(outpc[i])
      /\ Ids(crashed[i].cc) \subseteq Ids(outcc[i])

\* C4: when Next is about to return a batch without error, this tick's dump
\* has already written the state key, and what it wrote is the working snapshot,
\* which is the prior snapshot minus the newly passing plus the newly critical.
C4_PersistedBeforeReturn ==
  \A i \in Watchers :
    pc[i] = "ret" =>
      /\ err[i] = NoErr
      /\ Len(outcc[i]) > 0 \/ Len(outpc[i]) > 0
      /\ written[i] = Marshal(cc[i])
      /\ store = written[i]
      /\ Ids(cc[i]) = (Ids(prior[i]) \ Ids(outpc[i])) \cup Ids(outcc[i])

\* C4 witness: Next is about to return a batch with both kinds of transition
C4_Witness ==
  \E i \in Watchers :
    pc[i] = "ret" /\ Len(outcc[i]) > 0 /\ Len(outpc[i]) > 0 /\ store = Marshal(cc[i])

\* C5: once the renewal goroutine has failed and the session has expired, the
\* poll loop's next write of the state key fails (the watcher stops ticking).
C5_ExpiredSessionStopsPolling ==
  [][\A i \in Watchers :
       (renew[i] = "failed" /\ sess[i] \notin sessions /\ pc[i] = "dump")
         => pc'[i] \notin {"ret", "select"}]_vars

\* C6: when a Close call on a watcher has returned, the lock key is released,
\* the session is destroyed and the renewal goroutine has been told to stop.
C6_CloseReleasesAll ==
  \A i \in Watchers :
    cpc[i] \in {"done", "erred"} =>
      /\ lockKey # sess[i]
      /\ sess[i] \notin sessions
      /\ renew[i] # "running" \/ stopCh[i] = "closed"

\* C7: after a Close that completed (it closed c.stopCh), a further Close
\* performs no release and no destroy, does not fail and does not panic.
C7_SecondCloseNoOp ==
  \A i \in Watchers :
    stopCh[i] = "closed" => cpc[i] \notin {"destroy", "closech", "erred", "panic"}

\* C8: once Close has released the lock or closed c.stopCh, Next neither
\* fetches the live checks nor writes the state key.
C8_NoTickAfterStop ==
  [][\A i \in Watchers :
       (cpc[i] \in {"destroy", "closech", "done"} \/ stopCh[i] = "closed") =>
         /\ ~(pc[i] \in {"select", "woken"} /\ pc'[i] = "dump")
         /\ ~(pc[i] = "dump" /\ pc'[i] \in {"ret", "select"})]_vars

\* C9: while the state key holds bytes that do not deserialize, no Next call
\* gets as far as a tick, emits an event or overwrites the state key.
C9_CorruptNeverReset ==
  [][store = Garbage =>
       /\ store' = Garbage
       /\ \A i \in Watchers :
            pc'[i] \notin {"dump", "ret"} /\ outcc'[i] = <<>> /\ outpc'[i] = <<>>]_vars

C11_StopEndsLockWait ==
  [][\A i \in Watchers :
       (stopCh[i] = "closed" /\ pc[i] = "locksleep") => pc'[i] # "lock"]_vars

\* C12: a Next blocked in its select when c.stopCh is closed is woken on the
\* stop case and returns without fetching the live checks or writing the
\* state key; and whenever c.stopCh is closed, a running Next returns (unless
\* the process ends first, in the panic of a second Close).
C12_StopInterruptsSleep ==
  /\ [][\A i \in Watchers :
          /\ (pc[i] = "sleep" /\ stopCh'[i] = "closed") => pc'[i] = "stopping"
          /\ pc[i] = "stopping" =>
                /\ pc'[i] \in {"stopping", "idle", "dead"}
                /\ hc'[i] = hc[i] /\ cc'[i] = cc[i] /\ store' = store]_vars
  /\ \A i \in Watchers : stopCh[i] = "closed" ~> pc[i] \in {"idle", "dead"}

\* C12 witness: the close of c.stopCh has woken a Next that was blocked in its
\* select while the timer was pending
C12_Witness ==
  \E i \in Watchers : pc[i] = "stopping" /\ stopCh[i] = "closed" /\ cpc[i] = "done"

\* C13: Lock panics with "already locked" only while the lock is held (Lock
\* made c.lockCh and no Unlock closed it since), Unlock panics with "not
\* locked" only while it is not held, and an Unlock of a lock that is not held
\* ends in that panic and in no other.
C13_LockUnlockContract ==
  \A i \in Watchers :
    /\ pc[i] = "panic: already locked" => lockCh[i] = "open"
    /\ pc[i] = "panic: not locked" => lockCh[i] # "open"
    /\ pc[i] # "panic: close of closed lockCh"

\* C14: a Next that entered its loop returns only with an error, with a
\* non-empty batch, or with c.stopCh closed; and a tick that found no
\* transition and wrote the state key goes back to the select with a new timer
\* (unless the process ends there, in the panic of a second Close).
C14_ReturnsOnlyWithCause ==
  [][\A i \in Watchers :
       /\ (pc[i] \in {"select", "sleep", "woken", "stopping", "dump", "ret"}
             /\ pc'[i] = "idle") =>
              \/ err'[i] # NoErr
              \/ Len(outcc'[i]) > 0 \/ Len(outpc'[i]) > 0
              \/ stopCh[i] = "closed"
       /\ (pc[i] = "dump" /\ pc'[i] \notin {"dump", "dead"} /\ up
             /\ Len(outcc[i]) = 0 /\ Len(outpc[i]) = 0) =>
              pc'[i] = "select" /\ timer'[i] = "pending"]_vars

\* C14 witness: Next has returned an empty batch and no error after c.stopCh
\* was closed, the snapshot having been loaded
C14_Witness ==
  \E i \in Watchers :
    /\ pc[i] = "idle" /\ cc[i] # Nil /\ stopCh[i] = "closed"
    /\ err[i] = NoErr /\ outcc[i] = <<>> /\ outpc[i] = <<>>

\* C15: in a tick on a duplicate-free prior snapshot, the newly passing output
\* holds exactly the prior checks whose ServiceID is absent from the live
\* checks, each once, and none of them is left in the working snapshot.
C15_PassingExact ==
  \A i \in Watchers :
    (pc[i] \in {"dump", "ret"} /\ NoDup(prior[i])) =>
      /\ Ids(outpc[i]) = Ids(prior[i]) \ Ids(hc[i])
      /\ NoDup(outpc[i])
      /\ Ids(cc[i]) \cap (Ids(prior[i]) \ Ids(hc[i])) = {}

\* C16: the working snapshot, loaded from an absent key or from a
\* duplicate-free snapshot, never holds two checks with the same ServiceID,
\* whatever the health API answers (answers repeating a ServiceID included);
\* nor does the snapshot written to the state key.
C16_SnapshotNoDup ==
  /\ \A i \in Watchers : cc[i] # Nil => NoDup(cc[i])
  /\ NoDup(store.elems)

\* C16 witness: a tick on a non-empty snapshot whose live checks repeat a
\* ServiceID has added that ServiceID once
C16_Witness ==
  \E i \in Watchers :
    /\ pc[i] = "dump" /\ ~NoDup(hc[i]) /\ Len(prior[i]) > 0
    /\ Len(outcc[i]) = 1 /\ outcc[i][1] \in Ids(cc[i])

\* C17: in every tick no ServiceID is both in the newly passing and in the
\* newly critical output.
C17_PassingCriticalDisjoint ==
  \A i \in Watchers :
    pc[i] \in {"dump", "ret"} => Ids(outpc[i]) \cap Ids(outcc[i]) = {}

\* C17 witness: a tick has computed both newly passing and newly critical
\* checks from a snapshot part of which is still failing
C17_Witness ==
  \E i \in Watchers :
    /\ pc[i] = "dump" /\ Len(outcc[i]) > 0 /\ Len(outpc[i]) > 0
    /\ Ids(prior[i]) \cap Ids(hc[i]) # {}

\* C18: when New has returned an error after creating the session, or Next has
\* returned an error, the session is destroyed, the lock key is not held by
\* it and its renewal goroutine is not running.
C18_ErrorCleansUp ==
  \A i \in Watchers :
    (/\ pc[i] \in {"newfailed", "idle"}
     /\ err[i] # NoErr
     /\ sess[i] # NoSession) =>
      /\ sess[i] \notin sessions
      /\ lockKey # sess[i]
      /\ renew[i] # "running"

\* C19: with the live checks fixed and Next called again and again, from some
\* point on the working snapshot and the state key hold exactly the ServiceIDs
\* of the live checks and no tick emits an event; and every check a tick
\* removes from the snapshot is in that tick's newly passing output.
C19_Converges ==
  /\ <>[](\A i \in Watchers : pc[i] # "created" =>
             /\ Ids(cc[i]) = Ids(health)
             /\ store.kind = "array" /\ Ids(store.elems) = Ids(health)
             /\ pc[i] # "ret" /\ outcc[i] = <<>> /\ outpc[i] = <<>>)
  /\ [](\A i \in Watchers : pc[i] \in {"dump", "ret"} =>
           Ids(prior[i]) \ Ids(cc[i]) \subseteq Ids(outpc[i]))

\* C19 witness: facing fixed live checks, a tick that began with a snapshot
\* holding other ServiceIDs has brought the snapshot to the live ServiceIDs
C19_Witness ==
  \E i \in Watchers :
    /\ pc[i] = "ret" /\ health # Nil /\ hc[i] = health
    /\ Len(outpc[i]) > 0 /\ Len(outcc[i]) > 0
    /\ Ids(cc[i]) = Ids(health) /\ store = Marshal(cc[i])
    /\ Len(prior[i]) = NumSvc - 1

\* C20: whenever Next has returned, with or without an error, the working
\* snapshot c.cc is the snapshot the state key holds (the one this watcher
\* loaded or last wrote).
C20_MemoryMatchesStateKey ==
  \A i \in Watchers :
    (pc[i] = "idle" /\ cc[i] # Nil /\ store.kind = "array") =>
      cc[i] = store.elems
=============================================================================
